---- MODULE Spec2Model ----
(***************************************************************************)
(* Model of esm_analysis/carbon.py: the pCO2 sensitivity engine            *)
(* (spco2_sensitivity), the two decomposition drivers                      *)
(* (spco2_decomposition, spco2_decomposition_index) and the thermal /      *)
(* non-thermal split (temp_decomp_takahashi).                              *)
(*                                                                         *)
(* One behaviour is one call of one of these functions.  Init draws the    *)
(* arguments of the call; every action is one block of statements of the   *)
(* called function, and pc is the position of the call.  The check_xarray  *)
(* decorator of the two decompositions accepts every Dataset and index and *)
(* is left out.                                                            *)
(*                                                                         *)
(* Fields of the decomposition functions are computed exactly (see "exact  *)
(* arithmetic") in place of floats.  temp_decomp_takahashi, which needs    *)
(* exp, works in fixed point with Scale units per 1.0.                     *)
(***************************************************************************)
EXTENDS Integers, Sequences, FiniteSets, TLC

\* ------------------------------------------------------------------ bounds

\* Longest time axis, in calendar years.
MaxYears == 3
\* Samples per calendar year on the time axis (12 for monthly data).
MonthsPerYear == 2
\* First calendar year of the time axis.
FirstYear == 2000
\* Largest integer sliding_window drawn.
MaxWindow == 3
\* Largest polynomial order drawn.
MaxOrder == 2
\* Number of synthetic input data sets drawn.
NumSamples == 2
\* Longest time axis given to temp_decomp_takahashi.
MaxT == 3
\* Largest temperature and pCO2 values given to temp_decomp_takahashi.
MaxVal == 2
\* Fixed-point units per 1.0 in temp_decomp_takahashi.
Scale == 10000
\* Terms of the exponential series after the leading 1.
ExpTerms == 4

\* ------------------------------------------------------ exact arithmetic

\* Field values are computed exactly, in the prime field of P elements: the
\* image of the rational numbers under n/d |-> n * d^-1 (mod P).  Sums,
\* differences, products and quotients commute with that map, so every
\* identity between rational expressions of the inputs holds of the values
\* here, and no intermediate value leaves TLC's integers.  P is the largest
\* prime with (P-1)^2 < 2^31.
P == 46336 + 1

\* The value of a division by zero (inf or nan).
NonFinite == 0 - 1

Finite(a) == a # NonFinite

RECURSIVE XGcd(_, _)
\* <<g, x, y>> with g = gcd(a, b) = x*a + y*b.
XGcd(a, b) ==
    IF b = 0 THEN <<a, 1, 0>>
    ELSE LET r == XGcd(b, a % b)
         IN  <<r[1], r[3], r[2] - (a \div b) * r[3]>>

FInt(n) == n % P
FAdd(a, b) == IF Finite(a) /\ Finite(b) THEN (a + b) % P ELSE NonFinite
FNeg(a) == IF Finite(a) THEN (P - a) % P ELSE NonFinite
FSub(a, b) == FAdd(a, FNeg(b))
FMul(a, b) == IF Finite(a) /\ Finite(b) THEN (a * b) % P ELSE NonFinite
FInv(a) == IF Finite(a) /\ a # 0 THEN XGcd(a, P)[2] % P ELSE NonFinite
FDiv(a, b) == FMul(a, FInv(b))
\* The rational n/d.
Rat(n, d) == FDiv(FInt(n), FInt(d))

\* ------------------------------------------------- fields (time series)

RECURSIVE SumSeq(_)
SumSeq(s) == IF s = <<>> THEN FInt(0) ELSE FAdd(Head(s), SumSeq(Tail(s)))

\* Time mean of a field.
MeanSeq(s) == FDiv(SumSeq(s), FInt(Len(s)))

\* Elementwise operations of two fields on the same time axis.
SeqSub(a, b) == [i \in 1..Len(a) |-> FSub(a[i], b[i])]
SeqMul(a, b) == [i \in 1..Len(a) |-> FMul(a[i], b[i])]
\* Field and scalar.
SeqScale(a, c) == [i \in 1..Len(a) |-> FMul(a[i], c)]
SeqShift(a, c) == [i \in 1..Len(a) |-> FSub(a[i], c)]

Dot(a, b) == SumSeq(SeqMul(a, b))

\* The elements of s at the positions in idx (an increasing sequence).
Take(s, idx) == [k \in 1..Len(idx) |-> s[idx[k]]]

\* Orthogonal projection residual: y with its least-squares polynomial of
\* degree k in x removed (Gram-Schmidt over the basis x^0 .. x^k).
RECURSIVE Residual(_, _, _)
Residual(y, x, k) ==
    IF k < 0 THEN y
    ELSE LET r == Residual(y, x, k - 1)
             p == [i \in 1..Len(x) |-> FInt(IF k = 0 THEN 1 ELSE x[i] ^ k)]
             q == Residual(p, x, k - 1)
             qq == Dot(q, q)
         IN  IF qq = 0 THEN r ELSE SeqSub(r, SeqScale(q, FDiv(Dot(r, q), qq)))

\* ------------------------------------------------------------ data model

\* Python None for an optional integer argument is the empty tuple, the
\* integer n is <<n>>.
None == <<>>
Some(n) == <<n>>
\* Python truth value of an optional integer (None and 0 are falsy).
Truthy(o) == o # None /\ o[1] # 0

requiredVars == <<"spco2", "tos", "sos", "talkos", "dissicos">>
Range(s) == {s[i] : i \in 1..Len(s)}
\* A data variable a Dataset may carry besides the required ones.
OtherVars == {"fgco2"}
AllVars == Range(requiredVars) \cup OtherVars

\* The time coordinate of n calendar years from FirstYear on.
TimeAxis(n) ==
    [i \in 1..(n * MonthsPerYear) |->
        [year |-> FirstYear + ((i - 1) \div MonthsPerYear),
         month |-> 1 + ((i - 1) % MonthsPerYear)]]

\* Synthetic input values: variable v at time step i of data set s.  The
\* carbonate values keep 2*DIC - ALK, ALK - DIC and the salinity non-zero.
SampleValue(v, i, s) ==
    CASE v = "spco2"    -> 2 + ((i + s) % 3)
      [] v = "tos"      -> 1 + ((i * s) % 4)
      [] v = "sos"      -> 2 + (i % 2)
      [] v = "talkos"   -> 7 + ((i + s) % 2)
      [] v = "dissicos" -> 5 + ((i \div 2) % 2)
      [] OTHER          -> i

SampleDataset(vars, n, s) ==
    [v \in vars |-> [i \in 1..(n * MonthsPerYear) |-> FInt(SampleValue(v, i, s))]]

SampleIndex(n, s) ==
    [i \in 1..(n * MonthsPerYear) |-> FInt(((i * i) + s) % 5)]

EmptyDataset == [v \in {} |-> <<>>]

\* ------------------------------------------- helpers of esm_analysis.stats

\* nanmean(ds): the time mean of every data variable.
nanmean(ds) == [v \in DOMAIN ds |-> MeanSeq(ds[v])]

\* rm_poly(ds, order, dim='time'): every data variable with its
\* least-squares polynomial of the given order in the time step removed.
rm_poly(ds, ord) ==
    [v \in DOMAIN ds |-> Residual(ds[v], [i \in 1..Len(ds[v]) |-> i - 1], ord)]

\* linear_regression(x, y)['slope']: least-squares slope of y onto x.
\* A constant x has no slope (NaN): the samples never produce one.
linear_regression_slope(x, y) ==
    LET n == FInt(Len(x))
        sx == SumSeq(x)
    IN  FDiv(FSub(FMul(n, Dot(x, y)), FMul(sx, SumSeq(y))),
             FSub(FMul(n, Dot(x, x)), FMul(sx, sx)))

\* --------------------------------------------------- xarray operations

\* ds.sel(time=slice(str(y1), str(y2))): label slices include both ends, so
\* the time steps of every calendar year y1 .. y2.
SelTime(time, y1, y2) ==
    SelectSeq([i \in 1..Len(time) |-> i],
              LAMBDA i : time[i].year >= y1 /\ time[i].year <= y2)

DatasetSel(ds, idx) == [v \in DOMAIN ds |-> Take(ds[v], idx)]

\* Dataset - reduced Dataset: the time mean broadcast along time.
DatasetSubMean(ds, m) == [v \in DOMAIN ds \cap DOMAIN m |-> SeqShift(ds[v], m[v])]

\* Binary arithmetic of two Datasets keeps the data variables both have.
\* Reduced (time-free) Dataset * reduced Dataset.
DatasetMul(a, b) == [v \in DOMAIN a \cap DOMAIN b |-> FMul(a[v], b[v])]
\* Reduced Dataset * Dataset with a time axis (broadcast along time).
DatasetMulBroadcast(a, b) == [v \in DOMAIN a \cap DOMAIN b |-> SeqScale(b[v], a[v])]

\* ds.groupby('time.month') - ds.groupby('time.month').mean('time')
MonthIdx(time, m) ==
    SelectSeq([i \in 1..Len(time) |-> i], LAMBDA i : time[i].month = m)

Deseasonalized(ds, time) ==
    [v \in DOMAIN ds |->
        [i \in 1..Len(time) |->
            FSub(ds[v][i], MeanSeq(Take(ds[v], MonthIdx(time, time[i].month))))]]

\* xr.concat(res, dim='time').mean('time'), res non-empty.
ConcatMean(res) ==
    [v \in DOMAIN res[1] |-> MeanSeq([k \in 1..Len(res) |-> res[k][v]])]

\* index.groupby('time.year').groups: the calendar years present, ascending.
RECURSIVE SortedSeq(_)
SortedSeq(S) ==
    IF S = {} THEN <<>>
    ELSE LET m == CHOOSE x \in S : \A y \in S : x <= y
         IN  <<m>> \o SortedSeq(S \ {m})

YearGroups(time) == SortedSeq({time[i].year : i \in 1..Len(time)})

\* ---------------------------------------------------- spco2_sensitivity

\* The error message built from requiredVars in place of missingVars.
missingVarsAll(ds) ==
    IF \E i \in 1..Len(requiredVars) : requiredVars[i] \notin DOMAIN ds
    THEN requiredVars ELSE <<>>

\* The check that never asks for tos.
missingVarsNoTos(ds) ==
    SelectSeq(requiredVars, LAMBDA v : v \notin DOMAIN ds /\ v # "tos")

\* _check_variables: the required variables the Dataset lacks, in the order
\* of requiredVars; the ValueError is raised when there is one.
missingVars(ds) == SelectSeq(requiredVars, LAMBDA v : v \notin DOMAIN ds)

buffer_factor_ALK(ALK, DIC) ==
    FDiv(FNeg(FMul(ALK, ALK)),
         FMul(FSub(FMul(FInt(2), DIC), ALK), FSub(ALK, DIC)))

buffer_factor_DIC(ALK, DIC) ==
    FDiv(FSub(FMul(FInt(3), FMul(ALK, DIC)), FMul(FInt(2), FMul(DIC, DIC))),
         FMul(FSub(FMul(FInt(2), DIC), ALK), FSub(ALK, DIC)))

\* The keys of the sensitivity dict.
SensitivityVars == {"tos", "sos", "talkos", "dissicos"}

\* The sensitivity of one driver at time step i, before the multiplication
\* by pCO2.
SensitivityTerm(v, ds, i) ==
    LET DIC == ds["dissicos"][i]
        ALK == ds["talkos"][i]
        SALT == ds["sos"][i]
    IN  CASE v = "tos"      -> Rat(423, 10000)
          [] v = "sos"      -> FDiv(FInt(1), SALT)
          [] v = "talkos"   -> FMul(FDiv(FInt(1), ALK), buffer_factor_ALK(ALK, DIC))
          [] v = "dissicos" -> FMul(FDiv(FInt(1), DIC), buffer_factor_DIC(ALK, DIC))

\* The sensitivities without the temperature term.
SensitivityNoTos(ds) ==
    [v \in SensitivityVars \ {"tos"} |->
        [i \in 1..Len(ds["spco2"]) |-> FMul(SensitivityTerm(v, ds, i), ds["spco2"][i])]]

\* xr.Dataset(sensitivity) * pCO2
Sensitivity(ds) ==
    [v \in SensitivityVars |->
        [i \in 1..Len(ds["spco2"]) |-> FMul(SensitivityTerm(v, ds, i), ds["spco2"][i])]]

\* ------------------------------------------- regression_against_index

\* The terms regressed without the test for spco2.
RegressionTermsAll(ds) == DOMAIN ds

\* The terms regressed: every data variable except spco2.
RegressionTerms(ds) == DOMAIN ds \ {"spco2"}

regression_against_index(ds, ind) ==
    [term \in RegressionTerms(ds) |-> linear_regression_slope(ind, ds[term])]

\* ------------------------------------------------ temp_decomp_takahashi

\* Fixed-point helpers: integers in units of 1/Scale.
RECURSIVE SumInt(_)
SumInt(s) == IF s = <<>> THEN 0 ELSE Head(s) + SumInt(Tail(s))

\* field.mean(time_dim)
MeanFix(s) == SumInt(s) \div Len(s)

RECURSIVE ExpSeries(_, _, _)
\* The terms k .. ExpTerms of the series of exp(x), given term k-1.
ExpSeries(x, k, prev) ==
    IF k > ExpTerms THEN 0
    ELSE LET t == (prev * x) \div (k * Scale)
         IN  t + ExpSeries(x, k + 1, t)

\* np.exp
ExpFix(x) == Scale + ExpSeries(x, 1, Scale)

\* fac = 0.0432
fac == (432 * Scale) \div 10000

\* tos_diff = ds[temperature] - ds[temperature].mean(time_dim)
tos_diff(ds) == [i \in 1..Len(ds["tos"]) |-> ds["tos"][i] - MeanFix(ds["tos"])]

\* The thermal component scaled from the instantaneous pCO2.
ThermalNoMean(ds) ==
    [i \in 1..Len(ds["tos"]) |->
        (ds["spco2"][i] * ExpFix((tos_diff(ds)[i] * fac) \div Scale)) \div Scale]

\* thermal = ds[pco2].mean(time_dim) * np.exp(tos_diff * fac)
Thermal(ds) ==
    [i \in 1..Len(ds["tos"]) |->
        (MeanFix(ds["spco2"]) * ExpFix((tos_diff(ds)[i] * fac) \div Scale)) \div Scale]

\* non_thermal = ds[pco2] * np.exp(tos_diff * -fac)
NonThermal(ds) ==
    [i \in 1..Len(ds["tos"]) |->
        (ds["spco2"][i] * ExpFix((tos_diff(ds)[i] * (0 - fac)) \div Scale)) \div Scale]

\* A Dataset of temp_decomp_takahashi: tos and spco2 as given, in fixed point.
TakahashiDataset(tos, pco2) ==
    [v \in {"tos", "spco2"} |->
        [i \in 1..Len(tos) |-> Scale * (IF v = "tos" THEN tos[i] ELSE pco2[i])]]

\* ------------------------------------------------------------------ state

VARIABLES
    fn,                 \* the function called
    ds_terms,           \* argument: the input Dataset (also ds of spco2_sensitivity)
    time,               \* the time coordinate of ds_terms and index
    index,              \* argument: the climate index
    detrend, order, deseasonalize, plot, sliding_window,    \* arguments
    pc,                 \* position of the call
    pco2_sensitivity,   \* local: result of spco2_sensitivity
    ds_terms_anomaly,   \* local
    years, y_end, yi,   \* locals of the window loop; yi is the loop position
    res,                \* local: per-window results
    terms_in_pCO2_units,\* local
    thermal, non_thermal, \* results of temp_decomp_takahashi
    ret,                \* what the call returned: "", "Dataset", "None" or "tuple"
    error,              \* the exception raised: [type, where, vars]
    warns,              \* warnings.warn messages, in order
    log,                \* the computation steps executed, in order
    nSens,              \* calls of spco2_sensitivity
    nRegHelper,         \* calls of regression_against_index
    nLinReg,            \* calls of linear_regression
    windows             \* the time slices taken by each processed window

args == <<fn, ds_terms, time, index, detrend, order, deseasonalize, plot, sliding_window>>
tk == <<thermal, non_thermal>>
loopVars == <<years, y_end, yi, res, windows>>
counters == <<nSens, nRegHelper, nLinReg>>
vars == <<args, pc, pco2_sensitivity, ds_terms_anomaly, loopVars,
          terms_in_pCO2_units, thermal, non_thermal, ret, error, warns, log, counters>>

NoError == [type |-> "", where |-> "", vars |-> <<>>]

Functions == {"spco2_sensitivity", "spco2_decomposition", "spco2_decomposition_index",
              "temp_decomp_takahashi"}

Decompositions == {"spco2_decomposition", "spco2_decomposition_index"}

OrderValues == {None} \cup {Some(n) : n \in 0..MaxOrder}
WindowValues == {None} \cup {Some(n) : n \in 1..MaxWindow}

Init ==
    /\ fn \in Functions
    /\ IF fn = "temp_decomp_takahashi"
       THEN \E n \in 1..MaxT :
               \E tos \in [1..n -> 0..MaxVal], pco2 \in [1..n -> 0..MaxVal] :
                  /\ ds_terms = TakahashiDataset(tos, pco2)
                  /\ time = [i \in 1..n |-> [year |-> FirstYear, month |-> i]]
                  /\ index = <<>>
       ELSE \E present \in SUBSET AllVars, n \in 1..MaxYears, s \in 1..NumSamples :
               /\ ds_terms = SampleDataset(present, n, s)
               /\ time = TimeAxis(n)
               /\ index = IF fn = "spco2_decomposition_index" THEN SampleIndex(n, s)
                          ELSE <<>>
    /\ detrend \in (IF fn \in Decompositions THEN BOOLEAN ELSE {FALSE})
    /\ order \in (IF fn \in Decompositions THEN OrderValues ELSE {None})
    /\ deseasonalize \in (IF fn \in Decompositions THEN BOOLEAN ELSE {FALSE})
    /\ plot \in (IF fn = "spco2_decomposition_index" THEN BOOLEAN ELSE {FALSE})
    /\ sliding_window \in (IF fn = "spco2_decomposition_index" THEN WindowValues ELSE {None})
    /\ pc = IF fn = "temp_decomp_takahashi" THEN "takahashi" ELSE "sensitivity"
    /\ thermal = <<>> /\ non_thermal = <<>>
    /\ pco2_sensitivity = EmptyDataset
    /\ ds_terms_anomaly = EmptyDataset
    /\ years = <<>> /\ y_end = 0 /\ yi = 0 /\ res = <<>> /\ windows = <<>>
    /\ terms_in_pCO2_units = EmptyDataset
    /\ ret = ""
    /\ error = NoError
    /\ warns = <<>>
    /\ log = <<>>
    /\ nSens = 0 /\ nRegHelper = 0 /\ nLinReg = 0

\* ---------------------------------------------------------------- actions

\* spco2_sensitivity(ds): _check_variables, then the four sensitivities.
\* Called directly, or as the first statement of either decomposition.
spco2_sensitivity ==
    /\ pc = "sensitivity"
    /\ nSens' = nSens + 1
    /\ IF missingVars(ds_terms) # <<>>
       THEN /\ error' = [type |-> "ValueError", where |-> "_check_variables",
                         vars |-> missingVars(ds_terms)]
            /\ log' = Append(log, "_check_variables")
            /\ pc' = "raised"
            /\ UNCHANGED <<pco2_sensitivity, ret>>
       ELSE /\ pco2_sensitivity' = Sensitivity(ds_terms)
            /\ log' = log \o <<"_check_variables", "sensitivity">>
            /\ IF fn = "spco2_sensitivity"
               THEN pc' = "done" /\ ret' = "Dataset"
               ELSE pc' = "anomaly" /\ ret' = ret
            /\ UNCHANGED error
    /\ UNCHANGED <<args, ds_terms_anomaly, loopVars, terms_in_pCO2_units, thermal,
                   non_thermal, warns, nRegHelper, nLinReg>>

\* detrend and not order
OrderMissing == detrend /\ ~Truthy(order)

\* The missing-order error raised only after the trend removal was tried.
AnomalyRaiseLate ==
    /\ error' = [type |-> "KeyError", where |-> "order", vars |-> <<>>]
    /\ pc' = "raised"
    /\ ds_terms_anomaly' = rm_poly(ds_terms, 1)
    /\ log' = Append(log, "rm_poly")
    /\ UNCHANGED warns

\* raise KeyError("Please provide the order of polynomial ...")
AnomalyRaise ==
    /\ error' = [type |-> "KeyError", where |-> "order", vars |-> <<>>]
    /\ pc' = "raised"
    /\ UNCHANGED <<ds_terms_anomaly, warns, log>>

\* Both decompositions: the detrend / order branch.
Anomaly ==
    /\ pc = "anomaly"
    /\ IF OrderMissing
       THEN AnomalyRaise
       ELSE /\ IF detrend
               THEN /\ ds_terms_anomaly' = rm_poly(ds_terms, order[1])
                    /\ log' = Append(log, "rm_poly")
                    /\ warns' = warns
               ELSE /\ warns' = Append(warns, "Your data are not being detrended.")
                    /\ ds_terms_anomaly' = DatasetSubMean(ds_terms, nanmean(ds_terms))
                    /\ log' = Append(log, "subtract_mean")
            /\ pc' = "deseasonalize"
            /\ UNCHANGED error
    /\ UNCHANGED <<args, tk, pco2_sensitivity, loopVars, terms_in_pCO2_units, ret, counters>>

\* Both decompositions: the deseasonalize branch.
Deseasonalize ==
    /\ pc = "deseasonalize"
    /\ IF deseasonalize
       THEN /\ ds_terms_anomaly' = Deseasonalized(ds_terms_anomaly, time)
            /\ log' = Append(log, "deseasonalize")
            /\ warns' = warns
       ELSE /\ warns' = Append(warns, "Your data are not being deseasonalized.")
            /\ UNCHANGED <<ds_terms_anomaly, log>>
    /\ pc' = IF fn = "spco2_decomposition" THEN "multiply"
             ELSE IF sliding_window = None THEN "regress" ELSE "window_start"
    /\ UNCHANGED <<args, tk, pco2_sensitivity, loopVars, terms_in_pCO2_units, ret, error,
                   counters>>

\* spco2_decomposition: time-mean sensitivities times the anomalies; return.
Multiply ==
    /\ pc = "multiply"
    /\ terms_in_pCO2_units' = DatasetMulBroadcast(nanmean(pco2_sensitivity), ds_terms_anomaly)
    /\ log' = Append(log, "multiply")
    /\ ret' = "Dataset"
    /\ pc' = "done"
    /\ UNCHANGED <<args, tk, pco2_sensitivity, ds_terms_anomaly, loopVars, error, warns,
                   counters>>

\* spco2_decomposition_index, sliding_window is None: one regression over the
\* full series times the full-series mean sensitivity.
RegressFull ==
    /\ pc = "regress"
    /\ terms_in_pCO2_units' =
          DatasetMul(regression_against_index(ds_terms_anomaly, index),
                     nanmean(pco2_sensitivity))
    /\ nRegHelper' = nRegHelper + 1
    /\ nLinReg' = nLinReg + Cardinality(RegressionTerms(ds_terms_anomaly))
    /\ log' = log \o <<"regression", "multiply">>
    /\ pc' = "return"
    /\ UNCHANGED <<args, tk, pco2_sensitivity, ds_terms_anomaly, loopVars, ret, error, warns,
                   nSens>>

\* spco2_decomposition_index, sliding_window given: years, y_end, res = [].
WindowStart ==
    /\ pc = "window_start"
    /\ years' = YearGroups(time)
    /\ y_end' = time[Len(time)].year
    /\ res' = <<>>
    /\ yi' = 1
    /\ pc' = "window"
    /\ UNCHANGED <<args, tk, pco2_sensitivity, ds_terms_anomaly, windows,
                   terms_in_pCO2_units, ret, error, warns, log, counters>>

\* The window test with a strict comparison.
WindowFitsStrict(y1, w, yend) == y1 + w < yend

\* Whether the window starting at y1 is processed.
WindowFits(y1, w, yend) == y1 + w <= yend

\* The time slice of the window starting at y1.
WindowSlice(t, y1, w) == SelTime(t, y1, y1 + w)

\* One iteration of the loop over years.
WindowStep ==
    /\ pc = "window"
    /\ yi <= Len(years)
    /\ LET y1 == years[yi]
           w == sliding_window[1]
           sl == WindowSlice(time, y1, w)
           ds == DatasetSel(ds_terms_anomaly, sl)
           ind == Take(index, sl)
           terms == regression_against_index(ds, ind)
           sens == DatasetSel(pco2_sensitivity, sl)
       IN  IF WindowFits(y1, w, y_end)
           THEN /\ res' = Append(res, DatasetMul(terms, nanmean(sens)))
                /\ windows' = Append(windows,
                       [y1 |-> y1, ds |-> sl, ind |-> sl, sens |-> sl,
                        nLinReg |-> Cardinality(RegressionTerms(ds))])
                /\ nRegHelper' = nRegHelper + 1
                /\ nLinReg' = nLinReg + Cardinality(RegressionTerms(ds))
                /\ log' = log \o <<"regression", "multiply">>
           ELSE UNCHANGED <<res, windows, nRegHelper, nLinReg, log>>
    /\ yi' = yi + 1
    /\ UNCHANGED <<args, tk, pc, pco2_sensitivity, ds_terms_anomaly, years, y_end,
                   terms_in_pCO2_units, ret, error, warns, nSens>>

\* After the loop: xr.concat(res, dim='time').mean('time').  xr.concat of an
\* empty list raises ValueError.
WindowConcat ==
    /\ pc = "window"
    /\ yi > Len(years)
    /\ IF res = <<>>
       THEN /\ error' = [type |-> "ValueError", where |-> "concat", vars |-> <<>>]
            /\ pc' = "raised"
            /\ UNCHANGED <<terms_in_pCO2_units, log>>
       ELSE /\ terms_in_pCO2_units' = ConcatMean(res)
            /\ log' = Append(log, "concat_mean")
            /\ pc' = "return"
            /\ UNCHANGED error
    /\ UNCHANGED <<args, tk, pco2_sensitivity, ds_terms_anomaly, loopVars, ret, warns,
                   counters>>

\* spco2_decomposition_index: plot and return None, or return the terms.
Return ==
    /\ pc = "return"
    /\ ret' = IF plot THEN "None" ELSE "Dataset"
    /\ pc' = "done"
    /\ UNCHANGED <<args, tk, pco2_sensitivity, ds_terms_anomaly, loopVars,
                   terms_in_pCO2_units, error, warns, log, counters>>

\* temp_decomp_takahashi(ds): the thermal and non-thermal components.
temp_decomp_takahashi ==
    /\ pc = "takahashi"
    /\ thermal' = Thermal(ds_terms)
    /\ non_thermal' = NonThermal(ds_terms)
    /\ ret' = "tuple"
    /\ pc' = "done"
    /\ UNCHANGED <<args, pco2_sensitivity, ds_terms_anomaly, loopVars,
                   terms_in_pCO2_units, error, warns, log, counters>>

Next ==
    \/ temp_decomp_takahashi
    \/ spco2_sensitivity
    \/ Anomaly
    \/ Deseasonalize
    \/ Multiply
    \/ RegressFull
    \/ WindowStart
    \/ WindowStep
    \/ WindowConcat
    \/ Return

Spec == Init /\ [][Next]_vars

\* Every value computed is finite: the inputs drawn never divide by zero.
AllFinite ==
    /\ \A v \in DOMAIN pco2_sensitivity : \A i \in DOMAIN pco2_sensitivity[v] :
          Finite(pco2_sensitivity[v][i])
    /\ \A k \in DOMAIN res : \A v \in DOMAIN res[k] : Finite(res[k][v])
    /\ (fn = "spco2_decomposition_index" =>
          \A v \in DOMAIN terms_in_pCO2_units : Finite(terms_in_pCO2_units[v]))

\* ----------------------------------------------------------------- claims

\* The required variables absent from the input Dataset.
Missing == Range(requiredVars) \ DOMAIN ds_terms

\* spco2_sensitivity has run (the first statement of three of the functions).
SensitivityRan == fn # "temp_decomp_takahashi" /\ pc # "sensitivity"

\* The steps of log that compute on the data.
NumericSteps == {"sensitivity", "rm_poly", "subtract_mean", "deseasonalize",
                 "regression", "multiply", "concat_mean"}

\* C1: spco2_sensitivity raises the missing-variable ValueError if and only
\* if a required variable is absent; the error names exactly the absent
\* variables, each once; with none absent it returns a Dataset holding the
\* four sensitivity fields tos, sos, talkos and dissicos.
C1_MissingExactly ==
    SensitivityRan =>
        /\ (error.where = "_check_variables") <=> (Missing # {})
        /\ error.where = "_check_variables" =>
              /\ error.type = "ValueError"
              /\ Range(error.vars) = Missing
              /\ Len(error.vars) = Cardinality(Missing)
              /\ pc = "raised"
        /\ (Missing = {} /\ fn = "spco2_sensitivity") =>
              /\ pc = "done" /\ ret = "Dataset" /\ error = NoError
              /\ DOMAIN pco2_sensitivity = {"tos", "sos", "talkos", "dissicos"}

\* A direct call that failed on a Dataset lacking two of the variables while
\* holding the others.
C1_Witness ==
    /\ fn = "spco2_sensitivity"
    /\ pc = "raised"
    /\ error.vars = <<"tos", "dissicos">>
    /\ {"spco2", "sos", "talkos"} \subseteq DOMAIN ds_terms

\* C2 as stated: spco2_decomposition with detrend=True and order=None fails
\* with the missing-order error before any numeric work, the sensitivity
\* computation included.
C2_NoNumericWork ==
    (fn = "spco2_decomposition" /\ detrend /\ order = None /\ Missing = {}
        /\ pc \notin {"sensitivity", "anomaly"}) =>
        /\ pc = "raised" /\ error.where = "order"
        /\ \A k \in DOMAIN log : log[k] \notin NumericSteps

\* C2 amended: spco2_decomposition with detrend=True and order=None on a
\* Dataset holding the required variables fails with the missing-order
\* error after the sensitivities were computed (once) and before any
\* detrending, deseasonalizing or multiplication.
C2_OnlySensitivity ==
    (fn = "spco2_decomposition" /\ detrend /\ order = None /\ Missing = {}
        /\ pc \notin {"sensitivity", "anomaly"}) =>
        /\ pc = "raised" /\ error.type = "KeyError" /\ error.where = "order"
        /\ log = <<"_check_variables", "sensitivity">>
        /\ nSens = 1
        /\ DOMAIN pco2_sensitivity = SensitivityVars
        /\ ds_terms_anomaly = EmptyDataset
        /\ terms_in_pCO2_units = EmptyDataset
        /\ ret = ""

\* The call of C2 after it raised.
C2_Witness ==
    /\ fn = "spco2_decomposition" /\ detrend /\ order = None
    /\ pc = "raised" /\ error.where = "order"
    /\ nSens = 1

\* C3: either decomposition, whatever detrend, order, deseasonalize and
\* sliding_window, fails on a Dataset lacking a required variable with the
\* missing-variable error in its first step: nothing was computed, and the
\* missing-order error is never the one raised.
C3_MissingFirst ==
    (fn \in Decompositions /\ Missing # {} /\ pc # "sensitivity") =>
        /\ pc = "raised"
        /\ error.type = "ValueError" /\ error.where = "_check_variables"
        /\ \A k \in DOMAIN log : log[k] \notin NumericSteps
        /\ pco2_sensitivity = EmptyDataset
        /\ ds_terms_anomaly = EmptyDataset
        /\ nRegHelper = 0 /\ nLinReg = 0 /\ windows = <<>> /\ res = <<>>
        /\ warns = <<>>

\* The regression driver on a Dataset lacking tos, with detrend=True and
\* order=0, after it raised.
C3_Witness ==
    /\ fn = "spco2_decomposition_index"
    /\ "tos" \in Missing
    /\ detrend /\ order = Some(0)
    /\ sliding_window # None
    /\ pc = "raised"

\* The calendar years of the time axis.
YearsPresent == {time[i].year : i \in 1..Len(time)}

\* The calendar years a time slice touches.
YearsOf(sl) == {time[sl[k]].year : k \in 1..Len(sl)}

\* The call has ended, by a return or by an exception.
Ended == pc \in {"done", "raised"}

\* What sliding_window=None computes from the anomalies and sensitivities of
\* this call: one regression over the full series times the full mean.
FullSeriesTerms ==
    [v \in (DOMAIN ds_terms_anomaly \ {"spco2"}) \cap DOMAIN pco2_sensitivity |->
        FMul(linear_regression_slope(index, ds_terms_anomaly[v]),
             MeanSeq(pco2_sensitivity[v]))]

\* C4 as stated: with sliding_window equal to the number of calendar years
\* of the index, spco2_decomposition_index does not fail and returns what
\* sliding_window=None returns.
C4_FullWindowAsNone ==
    (fn = "spco2_decomposition_index" /\ Missing = {} /\ ~OrderMissing
        /\ sliding_window = Some(Cardinality(YearsPresent)) /\ Ended) =>
        /\ pc = "done"
        /\ error = NoError
        /\ terms_in_pCO2_units = FullSeriesTerms

\* C5 as stated: every processed window selects exactly sliding_window
\* calendar years of the anomalies, of the index and of the sensitivities,
\* the same time slice for the three.
C5_WindowYears ==
    \A k \in DOMAIN windows :
        /\ Cardinality(YearsOf(windows[k].ds)) = sliding_window[1]
        /\ Cardinality(YearsOf(windows[k].ind)) = sliding_window[1]
        /\ Cardinality(YearsOf(windows[k].sens)) = sliding_window[1]
        /\ windows[k].ds = windows[k].ind
        /\ windows[k].ds = windows[k].sens

\* The temperature equals its time mean at every time step.
DeltaTZero == \A i \in DOMAIN ds_terms["tos"] : tos_diff(ds_terms)[i] = 0

\* C6 as stated: with a zero temperature deviation at every time step the
\* thermal and non-thermal components of temp_decomp_takahashi add up to
\* the input spco2 at every time step.
C6_SumIsPco2 ==
    (fn = "temp_decomp_takahashi" /\ pc = "done" /\ DeltaTZero) =>
        \A i \in DOMAIN thermal : thermal[i] + non_thermal[i] = ds_terms["spco2"][i]

\* C6 amended: with a zero temperature deviation at every time step the
\* thermal component is the time mean of spco2 and the non-thermal one is
\* spco2 itself, so their sum is spco2 plus its time mean at every step.
C6_SumIsPco2PlusMean ==
    (fn = "temp_decomp_takahashi" /\ pc = "done" /\ DeltaTZero) =>
        /\ DOMAIN thermal = DOMAIN ds_terms["spco2"]
        /\ DOMAIN non_thermal = DOMAIN ds_terms["spco2"]
        /\ \A i \in DOMAIN thermal :
              /\ thermal[i] = SumInt(ds_terms["spco2"]) \div Len(ds_terms["spco2"])
              /\ non_thermal[i] = ds_terms["spco2"][i]
              /\ thermal[i] + non_thermal[i] =
                    ds_terms["spco2"][i]
                    + SumInt(ds_terms["spco2"]) \div Len(ds_terms["spco2"])

\* A finished call on a constant non-zero temperature and a varying pCO2.
C6_Witness ==
    /\ fn = "temp_decomp_takahashi" /\ pc = "done" /\ DeltaTZero
    /\ Len(ds_terms["tos"]) >= 2
    /\ ds_terms["tos"][1] # 0
    /\ ds_terms["spco2"][1] # ds_terms["spco2"][2]

\* The warnings a call that skips detrending and / or deseasonalizing emits.
ExpectedWarnings ==
    (IF detrend THEN <<>> ELSE <<"Your data are not being detrended.">>)
    \o (IF deseasonalize THEN <<>> ELSE <<"Your data are not being deseasonalized.">>)

\* C7 as stated: on a Dataset holding the required variables either
\* decomposition raises if and only if detrend is true and order is falsy;
\* otherwise it comes to a result, with the not-detrended warning exactly
\* when detrend is false and the not-deseasonalized warning exactly when
\* deseasonalize is false.
C7_RaisesIffOrderMissing ==
    (fn \in Decompositions /\ Missing = {} /\ Ended) =>
        /\ (pc = "raised") <=> OrderMissing
        /\ pc = "done" => warns = ExpectedWarnings

\* A sliding-window call of spco2_decomposition_index.
Windowed == fn = "spco2_decomposition_index" /\ sliding_window # None

\* The driver variables: every data variable of the input except spco2.
Drivers == DOMAIN ds_terms \ {"spco2"}

\* C8: the windows processed are the start years y1 present in the index
\* with y1 + sliding_window <= the last year of the index, in ascending
\* order and each once; the contribution of a window is, per driver, the
\* regression slope of the driver's anomaly onto the index over the window's
\* time slice times the mean sensitivity over the same time slice; the
\* result is the unweighted mean of the contributions.
C8_WindowsAndMean ==
    (Windowed /\ (pc \in {"return", "done"} \/ error.where = "concat")) =>
        LET w == sliding_window[1]
            last == time[Len(time)].year
        IN  /\ {windows[k].y1 : k \in DOMAIN windows} = {y \in YearsPresent : y + w <= last}
            /\ \A j, k \in DOMAIN windows : j < k => windows[j].y1 < windows[k].y1
            /\ Len(res) = Len(windows)
            /\ \A k \in DOMAIN windows :
                  LET W == windows[k].ds
                  IN  /\ windows[k].ind = W /\ windows[k].sens = W
                      /\ W # <<>> /\ time[W[1]].year = windows[k].y1
                      /\ DOMAIN res[k] = Drivers \cap DOMAIN pco2_sensitivity
                      /\ \A v \in DOMAIN res[k] :
                            res[k][v] =
                               FMul(linear_regression_slope(Take(index, W),
                                                            Take(ds_terms_anomaly[v], W)),
                                    MeanSeq(Take(pco2_sensitivity[v], W)))
            /\ pc \in {"return", "done"} =>
                  /\ res # <<>>
                  /\ DOMAIN terms_in_pCO2_units = DOMAIN res[1]
                  /\ \A v \in DOMAIN terms_in_pCO2_units :
                        terms_in_pCO2_units[v] =
                           FDiv(SumSeq([k \in 1..Len(res) |-> res[k][v]]), FInt(Len(res)))

\* A returned sliding-window call that processed two windows.
C8_Witness ==
    /\ Windowed /\ pc = "done" /\ ret = "Dataset"
    /\ Len(windows) = 2
    /\ windows[1].y1 = FirstYear /\ windows[2].y1 = FirstYear + 1

\* C9 as stated: in sliding-window mode spco2_sensitivity is invoked once
\* per processed window, and the regression once per driver in each window.
C9_SensitivityPerWindow ==
    (Windowed /\ pc = "done") =>
        /\ nSens = Len(windows)
        /\ \A k \in DOMAIN windows : windows[k].nLinReg = Cardinality(Drivers)

\* C9 amended: in sliding-window mode spco2_sensitivity is invoked exactly
\* once per call, before the window loop, whatever the number of windows;
\* regression_against_index is invoked once per processed window and
\* linear_regression once per driver (every data variable except spco2) in
\* each window.
C9_SensitivityOnce ==
    (Windowed /\ (pc \in {"window", "return", "done"} \/ error.where = "concat")) =>
        /\ nSens = 1
        /\ nRegHelper = Len(windows)
        /\ \A k \in DOMAIN windows : windows[k].nLinReg = Cardinality(Drivers)
        /\ nLinReg = Len(windows) * Cardinality(Drivers)

\* A returned sliding-window call over two windows on a Dataset that also
\* carries a non-required variable.
C9_Witness ==
    /\ Windowed /\ pc = "done"
    /\ Len(windows) = 2
    /\ "fgco2" \in DOMAIN ds_terms
    /\ nLinReg = 10

\* C10: a decomposition that returns a Dataset returns exactly the four
\* drivers tos, sos, talkos and dissicos: never spco2, never another data
\* variable of the input, none of the four dropped.
C10_FourDrivers ==
    (fn \in Decompositions /\ ret = "Dataset") =>
        DOMAIN terms_in_pCO2_units = {"tos", "sos", "talkos", "dissicos"}

\* A returned sliding-window call on a Dataset that also carries a
\* non-required variable.
C10_Witness ==
    /\ Windowed /\ ret = "Dataset"
    /\ "fgco2" \in DOMAIN ds_terms
    /\ windows # <<>>
    /\ DOMAIN terms_in_pCO2_units # {}

====
